---- MODULE Spec2Model ----
(***************************************************************************)
(* Model of the ASA updater: DeviceHelper.connect_to_device (credential    *)
(* fallback search), DeviceHelper.backup_config, upgrade_asa (the          *)
(* per-device upgrade sequence) and ThreadingHelper (the worker pool that  *)
(* drives upgrade_asa over a list of Device objects).                      *)
(*                                                                         *)
(* Python strings that are only compared are TLA+ strings; strings that    *)
(* are sliced, split or concatenated (paths, prompts, commands) are        *)
(* sequences of tokens whose concatenation is the Python string.           *)
(* Calls into netmiko, the file system and the OS are modelled by their    *)
(* possible outcomes, supplied to each call in an "env" record.            *)
(***************************************************************************)
EXTENDS Integers, Sequences, FiniteSets, TLC

\* ------------------------------------------------------------------ bounds
MaxDevices == 2
MaxWorkers == 2
MaxCreds == 2
MaxTypes == 2
MaxPathLen == 3
MaxRuns == 2

\* ------------------------------------------------------------ Python values
None == "None"
Absent == "<absent>"     \* a key that is not in a dict
NoExc == "<no exception>"
NoConn == [username |-> Absent, password |-> Absent, secret |-> Absent,
           device_type |-> <<>>]

Ev(op, arg) == [op |-> op, arg |-> arg]

\* A credentials argument: None, one dict, or a list of dicts.
NoneCreds == [kind |-> "none", items |-> <<>>]
DictCreds(c) == [kind |-> "dict", items |-> <<c>>]
ListCreds(cs) == [kind |-> "list", items |-> cs]

\* A device_type argument: a list of type names, or one string.  A type name
\* is a sequence of tokens; a string argument is given character by character.
ListType(names) == [kind |-> "list", names |-> names]
StrType(name) == [kind |-> "str", names |-> <<name>>]

\* Iterating a Python string yields its characters, one-character strings.
Chars(name) == [i \in 1..Len(name) |-> <<name[i]>>]

RECURSIVE Join(_)
Join(names) == IF names = <<>> THEN <<>> ELSE Head(names) \o Join(Tail(names))

\* What `for d in device_type` yields when device_type was left as it came.
TypeElements(device_type) ==
    IF device_type.kind = "list" THEN device_type.names
    ELSE Chars(device_type.names[1])

\* `[device_type]`: one element, the whole argument.
TypeWrapped(device_type) ==
    IF device_type.kind = "str" THEN device_type.names
    ELSE <<Join(device_type.names)>>

\* `if credentials:` -- None, [] and {} are falsy.
Truthy(credentials) == credentials.kind # "none" /\ Len(credentials.items) > 0

\* Lines 186-188: a dict is wrapped into a one-element list.
AsCredentialList(credentials) ==
    IF credentials.kind = "dict" THEN ListCreds(credentials.items) ELSE credentials

\* Lines 190-192: device_type is wrapped into a list only when *credentials*
\* is not a list (the test names credentials, not device_type); credentials
\* that passed lines 173 and 187-188 are a list, so device_type is iterated as
\* it came.
DeviceTypeIter(credentials, device_type) ==
    IF AsCredentialList(credentials).kind # "list"
    THEN TypeWrapped(device_type)
    ELSE TypeElements(device_type)

\* Lines 197-208 without the else branch of lines 206-208.
SetCredentialKeepSecret(device, c) ==
    [device EXCEPT !.username = IF c.username # Absent THEN c.username ELSE @,
                   !.password = IF c.password # Absent THEN c.password ELSE @,
                   !.secret = IF c.secret # Absent THEN c.secret ELSE @]

\* Lines 197-208: the netmiko parameter dict is updated from credential c.
\* username and password are overwritten only when c has the key; secret is
\* overwritten when present and removed when absent.
SetCredential(device, c) ==
    [device EXCEPT !.username = IF c.username # Absent THEN c.username ELSE @,
                   !.password = IF c.password # Absent THEN c.password ELSE @,
                   !.secret = c.secret]

\* Outcome of one ConnectHandler(**device) [+ connection.enable()] attempt:
\*   "ok"      the session is opened (and enable mode entered)
\*   "auth"    ConnectHandler raises NetMikoAuthenticationException
\*   "timeout" ConnectHandler raises NetMikoTimeoutException
\*   "enable"  ConnectHandler succeeds, connection.enable() raises ValueError
AttemptOutcomes == {"ok", "auth", "timeout", "enable"}

ConnectEvent(device, d) ==
    Ev("ConnectHandler", <<device.username, device.password, device.secret>> \o d)

Session(device, d) ==
    [username |-> device.username, password |-> device.password,
     secret |-> device.secret, device_type |-> d]

\* The state of one connect_to_device call: the credential list and device
\* types iterated, the loop position (c, d), the netmiko parameter dict, the
\* ConnectHandler/enable calls made so far with the outcome of each attempt,
\* and how the call has ended ("running" while it has not).
Raised(st, exc, msg) == [st EXCEPT !.status = "raised", !.exc = exc, !.msg = msg]

Returned(st, conn) == [st EXCEPT !.status = "returned", !.conn = conn]

\* Line 195 and lines 236-238: the outer loop moves to credential set c, or
\* runs out.  With no device type to try the inner loop does nothing.
RECURSIVE EnterCredential(_, _)
EnterCredential(st, c) ==
    IF c > Len(st.creds)
    THEN Raised(st, "ConnectionException", "Unable to connect to device")
    ELSE LET st1 == [st EXCEPT !.c = c, !.d = 1,
                               !.device = SetCredential(@, st.creds[c])]
         IN  IF st.types = <<>> THEN EnterCredential(st1, c + 1) ELSE st1

\* Lines 226-234 with the timeout swallowed like the authentication failure.
InnerHandlerContinuesOnTimeout(outcome) == outcome \in {"auth", "timeout"}

\* Lines 226-230: the inner handler that swallows the exception, so that the
\* loop goes on with the next device type.
InnerHandlerContinues(outcome) == outcome = "auth"

\* Lines 223-224: `return connection` ends the call.
AfterSuccess(st, conn) == Returned(st, conn)

\* Lines 210-234 and 240-241 with an inner loop that gives up on the
\* credential set after its first rejected device type.
ConnectStepSkipsTypes(st, outcome) ==
    LET d == st.types[st.d]
        st1 == [st EXCEPT !.log = Append(@, ConnectEvent(st.device, d)),
                          !.outs = Append(@, outcome)]
        st2 == IF st.enable_mode
               THEN [st1 EXCEPT !.log = Append(@, Ev("enable", <<>>))]
               ELSE st1
        next == EnterCredential(st1, st.c + 1)
    IN  CASE outcome = "ok" \/ (outcome = "enable" /\ ~st.enable_mode) ->
               AfterSuccess(st2, Session(st.device, d))
          [] outcome = "enable" /\ st.enable_mode ->
               Raised(st2, "ValueError", "Failed to enter enable mode")
          [] InnerHandlerContinues(outcome) -> next
          [] OTHER ->
               Raised(st1, "ConnectionException", "Connection to device timed out")

\* Lines 210-234 and 240-241: one pass of the inner loop body, the attempt
\* with credential set st.c and device type st.d, ending as `outcome` says.
ConnectStep(st, outcome) ==
    LET d == st.types[st.d]
        st1 == [st EXCEPT !.log = Append(@, ConnectEvent(st.device, d)),
                          !.outs = Append(@, outcome)]
        st2 == IF st.enable_mode
               THEN [st1 EXCEPT !.log = Append(@, Ev("enable", <<>>))]
               ELSE st1
        next == IF st.d < Len(st.types)
                THEN [st1 EXCEPT !.d = @ + 1]
                ELSE EnterCredential(st1, st.c + 1)
    IN  CASE outcome = "ok" \/ (outcome = "enable" /\ ~st.enable_mode) ->
               AfterSuccess(st2, Session(st.device, d))
          [] outcome = "enable" /\ st.enable_mode ->
               \* ValueError: neither try of connect_to_device names it
               Raised(st2, "ValueError", "Failed to enter enable mode")
          [] InnerHandlerContinues(outcome) -> next
          [] OTHER ->
               \* NetMikoTimeoutException: re-raised by the inner handler,
               \* turned into ConnectionException by the outer one
               Raised(st1, "ConnectionException", "Connection to device timed out")

\* Lines 172-192 and 242-244: the call up to its first attempt.
ConnectStart(ipaddr, credentials, enable_mode, device_type) ==
    LET st0 == [creds |-> AsCredentialList(credentials).items,
                types |-> DeviceTypeIter(credentials, device_type),
                enable_mode |-> enable_mode, c |-> 0, d |-> 0,
                device |-> [ip |-> ipaddr, username |-> Absent,
                            password |-> Absent, secret |-> Absent],
                log |-> <<>>, outs |-> <<>>,
                status |-> "running", exc |-> NoExc, msg |-> "", conn |-> NoConn]
    IN  IF Truthy(credentials)
        THEN EnterCredential(st0, 1)
        ELSE Raised([st0 EXCEPT !.creds = <<>>, !.types = <<>>],
                    "ConnectionException", "No Credentials provided")

RECURSIVE RunConnect(_, _)
RunConnect(st, oracle) ==
    IF st.status # "running" THEN st
    ELSE RunConnect(ConnectStep(st, oracle[st.c][st.d]), oracle)

\* DeviceHelper.connect_to_device, run to its end.  oracle[c][d] is the
\* outcome of the attempt with credential set c and device type d.
connect_to_device(ipaddr, credentials, enable_mode, device_type, oracle) ==
    RunConnect(ConnectStart(ipaddr, credentials, enable_mode, device_type), oracle)

\* ---------------------------------------------------------------- helpers
\* DeviceHelper.backup_config.  Returns the exception it raises (it never
\* returns normally): ValueError when location is not a directory; when it
\* is, line 83 calls datetime.strptime with a keyword argument and without
\* the date string, a TypeError, before any file is opened.
backup_config(is_dir) ==
    IF is_dir THEN "TypeError" ELSE "ValueError"

\* DeviceHelper.ping: TRUE iff the ping process exits with status 0.
ping(exit_status) == exit_status = 0

\* pathlib: Path(p).name.  The path is split at "/", empty and "." components
\* are dropped, and the name is the last component left ("" when none is).
RECURSIVE Components(_, _, _)
Components(path, cur, acc) ==
    IF path = <<>> THEN Append(acc, cur)
    ELSE IF Head(path) = "/" THEN Components(Tail(path), <<>>, Append(acc, cur))
    ELSE Components(Tail(path), Append(cur, Head(path)), acc)

IsPathPart(comp) == comp # <<>> /\ comp # <<".">>

PathName(path) ==
    LET parts == SelectSeq(Components(path, <<>>, <<>>), IsPathPart)
    IN  IF parts = <<>> THEN <<>> ELSE parts[Len(parts)]

\* str.lower() on the image types the command line accepts.
Lower(str) ==
    CASE str = "ASA" -> "asa"
      [] str = "ASDM" -> "asdm"
      [] OTHER -> str

\* What the device prints for "sh run | i ssh scopy enable".
ScpOutput(scp_enabled) == IF scp_enabled THEN "ssh scopy enable" ELSE ""

\* Line 117: `output.lower() is "ssh copy enable"`.  `is` compares object
\* identity: the string lower() builds at run time is never the literal's
\* object; and no output of the device equals "ssh copy enable" (the command
\* is "ssh scopy enable"), so an implementation that compares short strings by
\* value gives the same answer.
IsLiteral(output, literal) == FALSE

\* Methods of a netmiko connection that upgrade_asa looks up.
ConnectionMethods ==
    {"find_prompt", "send_command", "send_config_set", "save_config"}

HasMethod(name) == name \in ConnectionMethods

\* Line 175: time.sleep(300).
SettleSeconds == 300

\* ------------------------------------------------------------- upgrade_asa
\* The state threaded through the sequence: the Device object, the calls made
\* on the connection / FileTransfer / helpers so far, whether
\* connect_to_device returned a session, and the SCP feature of the remote
\* device (as it was found, and as it is now).
Issue(s, ev) == [s EXCEPT !.trace = Append(@, ev)]

\* Falling off the end of the function, or `return device`.
Return(s, ret) ==
    [device |-> s.device, trace |-> s.trace, session |-> s.session,
     scp_before |-> s.scp_before, scp_now |-> s.scp_now,
     ret |-> ret, exc |-> NoExc]

\* Lines 185-194 without the ConnectionException handler.
RaiseOnlyValueError(s, exc) ==
    IF exc = "ValueError"
    THEN Return([s EXCEPT !.device.connected = FALSE], "device")
    ELSE [device |-> s.device, trace |-> s.trace, session |-> s.session,
          scp_before |-> s.scp_before, scp_now |-> s.scp_now,
          ret |-> "<raised>", exc |-> exc]

\* Lines 185-194: the two handlers of upgrade_asa's try; any other exception
\* leaves upgrade_asa.
Raise(s, exc) ==
    IF exc \in {"ConnectionException", "ValueError"}
    THEN Return([s EXCEPT !.device.connected = FALSE], "device")
    ELSE [device |-> s.device, trace |-> s.trace, session |-> s.session,
          scp_before |-> s.scp_before, scp_now |-> s.scp_now,
          ret |-> "<raised>", exc |-> exc]

\* Python's str(bool), for the value a call returned.
BoolStr(b) == IF b THEN "True" ELSE "False"

\* Lines 168-183.
RebootStage(s, a, env) ==
    IF ~a.reboot THEN Return(s, None)
    ELSE IF ~HasMethod("send_confg_set") THEN Raise(s, "AttributeError")
    ELSE LET s1 == Issue(Issue(s, Ev("send_confg_set", <<"reboot">>)),
                         Ev("send_confg_set", <<"y">>))
             s2 == Issue(Issue(s1, Ev("sleep", <<ToString(SettleSeconds)>>)),
                         Ev("ping", <<s.device.ip_address,
                                      BoolStr(ping(env.ping_status))>>))
             s3 == [s2 EXCEPT !.device.successfully_rebooted = ping(env.ping_status)]
         IN  Return(s3, "device")

\* Line 153 with the "/" left out.
AsaFilePathNoSeparator(dest_drive, image_file_name) ==
    dest_drive \o image_file_name

\* Line 153.
AsaFilePath(dest_drive, image_file_name) ==
    dest_drive \o <<"/">> \o image_file_name

\* Lines 150-166 without the test of line 151.
BootStageUnguarded(s, a, env) ==
    LET asa_file_path == AsaFilePath(a.dest_drive, PathName(a.image_location))
        s1 == CASE Lower(a.image_type) = "asa" ->
                     Issue(s, Ev("send_config_set", <<"boot system ">> \o asa_file_path))
                 [] Lower(a.image_type) = "asdm" ->
                     Issue(s, Ev("send_config_set", <<"asdm image ">> \o asa_file_path))
                 [] OTHER -> s
        s2 == Issue(s1, Ev("save_config", <<>>))
    IN  RebootStage(s2, a, env)

\* Lines 150-166 with save_config() called before the boot pointer is set.
BootStageSaveFirst(s, a, env) ==
    IF ~s.device.file_uploaded THEN Return(s, None)
    ELSE LET asa_file_path == AsaFilePath(a.dest_drive, PathName(a.image_location))
             s1 == Issue(s, Ev("save_config", <<>>))
             s2 == CASE Lower(a.image_type) = "asa" ->
                          Issue(s1, Ev("send_config_set", <<"boot system ">> \o asa_file_path))
                      [] Lower(a.image_type) = "asdm" ->
                          Issue(s1, Ev("send_config_set", <<"asdm image ">> \o asa_file_path))
                      [] OTHER -> s1
         IN  RebootStage(s2, a, env)

\* Lines 150-166.
BootStage(s, a, env) ==
    IF ~s.device.file_uploaded THEN Return(s, None)
    ELSE LET asa_file_path == AsaFilePath(a.dest_drive, PathName(a.image_location))
             s1 == CASE Lower(a.image_type) = "asa" ->
                          Issue(s, Ev("send_config_set", <<"boot system ">> \o asa_file_path))
                      [] Lower(a.image_type) = "asdm" ->
                          Issue(s, Ev("send_config_set", <<"asdm image ">> \o asa_file_path))
                      [] OTHER -> s
             s2 == Issue(s1, Ev("save_config", <<>>))
         IN  RebootStage(s2, a, env)

\* Lines 145-148.
DisableScp(s, scp_enabled, a, env) ==
    IF ~scp_enabled
    THEN BootStage([Issue(s, Ev("send_config_set", <<"no ssh scopy enable">>))
                       EXCEPT !.scp_now = FALSE], a, env)
    ELSE BootStage(s, a, env)

\* Lines 126-143 with the test of line 130 left out.
TransferFlowNoSpaceCheck(s, scp_enabled, a, env) ==
    LET s1 == Issue(s, Ev("FileTransfer", a.dest_drive \o PathName(a.image_location)))
        s2 == Issue(s1, Ev("verify_space_available", <<BoolStr(env.space)>>))
        s3 == Issue(s2, Ev("transfer_file", <<env.transfer>>))
        s4 == Issue(s3, Ev("verify_file", <<BoolStr(env.verify)>>))
    IN  IF env.transfer # "ok" THEN Raise(s3, env.transfer)
        ELSE IF ~env.verify
        THEN DisableScp([s4 EXCEPT !.device.error = "File transfer verifier failed"],
                        scp_enabled, a, env)
        ELSE DisableScp([s4 EXCEPT !.device.file_uploaded = TRUE], scp_enabled, a, env)

\* Lines 126-143: the with block.  Each event carries what the call returned.
\* transfer_file() raising (an SCP or socket error) leaves the with block and
\* upgrade_asa: neither handler names it.
TransferFlow(s, scp_enabled, a, env) ==
    LET s1 == Issue(s, Ev("FileTransfer", a.dest_drive \o PathName(a.image_location)))
        s2 == Issue(s1, Ev("verify_space_available", <<BoolStr(env.space)>>))
        s3 == Issue(s2, Ev("transfer_file", <<env.transfer>>))
        s4 == Issue(s3, Ev("verify_file", <<BoolStr(env.verify)>>))
    IN  IF env.space
        THEN IF env.transfer # "ok" THEN Raise(s3, env.transfer)
             ELSE IF ~env.verify
             THEN DisableScp([s4 EXCEPT !.device.error = "File transfer verifier failed"],
                             scp_enabled, a, env)
             ELSE DisableScp([s4 EXCEPT !.device.file_uploaded = TRUE],
                             scp_enabled, a, env)
        ELSE DisableScp([s2 EXCEPT !.device.error = "Not enough space to upload file"],
                        scp_enabled, a, env)

\* Lines 112-124.
UploadStage(s, a, env) ==
    LET s1 == Issue(s, Ev("send_command", <<"sh run | i ssh scopy enable">>))
        output == ScpOutput(s.scp_now)
        scp_enabled == IsLiteral(Lower(output), "ssh copy enable")
    IN  IF scp_enabled
        THEN TransferFlow(s1, TRUE, a, env)
        ELSE TransferFlow([Issue(s1, Ev("send_config_set", <<"ssh scopy enable">>))
                              EXCEPT !.scp_now = TRUE], FALSE, a, env)

\* Lines 103-110.
BackupStage(s, a, env) ==
    IF a.backup_config
    THEN LET s1 == Issue(Issue(s, Ev("send_command", <<"sh run">>)),
                         Ev("backup_config", s.device.name))
             s2 == Issue(s1, Ev("is_dir", <<BoolStr(env.is_dir)>>))
         IN  Raise(s2, backup_config(env.is_dir))
    ELSE UploadStage(s, a, env)

\* find_prompt() of the session: the device's prompt, host name and "#".
Prompt(ip_address) == <<ip_address, "#">>

\* Line 101: prompt[0:(len(prompt) - 1)].
DeviceName(prompt) == SubSeq(prompt, 1, Len(prompt) - 1)

\* upgrade_asa(device, **args).  env holds the outcomes of the external
\* calls: auth (the connect oracle), scp_enabled (the device's SCP feature),
\* is_dir, space, transfer, verify, ping_status.  Returns the Device object
\* as the call leaves it, the calls made, the value returned and the exception
\* that left the function (NoExc when it returned).
upgrade_asa(device, a, env) ==
    LET conn == connect_to_device(device.ip_address, device.credentials, TRUE,
                                  ListType(<<<<"cisco_asa">>>>), env.auth)
        s0 == [device |-> device, trace |-> conn.log, session |-> FALSE,
               scp_before |-> env.scp_enabled, scp_now |-> env.scp_enabled]
    IN  IF conn.exc # NoExc THEN Raise(s0, conn.exc)
        ELSE LET s1 == [Issue(s0, Ev("find_prompt", <<>>))
                           EXCEPT !.session = TRUE,
                                  !.device.connected = TRUE,
                                  !.device.name = DeviceName(Prompt(device.ip_address))]
             IN  BackupStage(s1, a, env)

\* ------------------------------------------------------------------ state
VARIABLES
    args,              \* main: the keyword arguments every upgrade_asa call gets
    devices,           \* main: device_list, the Device objects (by index)
    input_queue,       \* ThreadingHelper.input_queue: indices of queued devices
    unfinished_tasks,  \* Queue.unfinished_tasks of input_queue (put +1, task_done -1)
    output_queue,      \* ThreadingHelper.output_queue
    num_of_workers,    \* ThreadingHelper.num_of_workers
    started,           \* run: number of threads started so far
    next_item,         \* run: index of the next item to put
    main_pc,           \* run: "put", "start", "join", "returned"
    result,            \* the list run returned
    worker_pc,         \* __worker, per thread: "idle", "check", "get", "call",
                       \*   "put", "task_done", "exit", "crashed"
    worker_item,       \* __worker: item
    worker_r,          \* __worker: r
    outcome,           \* per device: how its upgrade_asa call went (history)
    conn_args,         \* a connect_to_device call: its arguments
    conn_state,        \* a connect_to_device call: its state
    run_calls          \* how many times run has been called on the helper

vars == <<args, devices, input_queue, unfinished_tasks, output_queue,
          num_of_workers, started, next_item, main_pc, result, worker_pc,
          worker_item, worker_r, outcome, conn_args, conn_state, run_calls>>

pool_vars == <<args, devices, input_queue, unfinished_tasks, output_queue,
               num_of_workers, started, next_item, main_pc, result, worker_pc,
               worker_item, worker_r, outcome>>

conn_vars == <<conn_args, conn_state>>

\* Device.__init__, lines 59-67.
Device(ip_address) ==
    [ip_address |-> ip_address, name |-> <<>>, connected |-> FALSE,
     successfully_rebooted |-> FALSE, file_uploaded |-> FALSE, error |-> "",
     credentials |-> NoneCreds, config_backed_up |-> FALSE]

IpAddress(i) == "10.0.0." \o ToString(i)

\* ------------------------------------------------------------------ inputs
SeqsUpTo(S, n) == UNION {[1..k -> S] : k \in 0..n}

\* Credential sets as get_credentials builds them: username and password,
\* and a secret only when one was entered.
CredentialSets ==
    {[username |-> "admin", password |-> "pw1", secret |-> Absent],
     [username |-> "ops", password |-> "pw2", secret |-> "en2"]}

CredentialArgs ==
    {NoneCreds} \cup {DictCreds(c) : c \in CredentialSets}
                \cup {ListCreds(cs) : cs \in SeqsUpTo(CredentialSets, MaxCreds)}

ImageTypes == {"asa", "ASA", "asdm", "ASDM"}

DestDrives == {<<"disk0:">>, <<"flash:">>}

PathTokens == {"/", ".", "asa.bin"}

ImageLocations == SeqsUpTo(PathTokens, MaxPathLen)

ArgsOver(types, locations, drives) ==
    [image_type : types, image_location : locations, dest_drive : drives,
     reboot : BOOLEAN, backup_config : BOOLEAN]

\* The outcomes of the external calls of one upgrade_asa call.  The outcome
\* of a call that the arguments rule out (is_dir without backup_config, the
\* ping without reboot) is not varied.
Envs(credentials, a) ==
    [auth : [1..Len(AsCredentialList(credentials).items) -> [1..1 -> AttemptOutcomes]],
     scp_enabled : BOOLEAN,
     is_dir : IF a.backup_config THEN BOOLEAN ELSE {FALSE},
     space : BOOLEAN,
     transfer : {"ok", "SCPException"},
     verify : BOOLEAN,
     ping_status : IF a.reboot THEN {0, 1} ELSE {1}]

NotCalled ==
    [trace |-> <<>>, session |-> FALSE, scp_before |-> FALSE, scp_now |-> FALSE,
     ret |-> "<not called>", exc |-> NoExc]

IdleConnArgs ==
    [credentials |-> NoneCreds, enable_mode |-> FALSE, device_type |-> ListType(<<>>)]

IdleConnState == [status |-> "idle"]

\* main, lines 264-292: the device list is read, every device gets the
\* credentials, the ThreadingHelper is constructed, run is about to be called.
InitPool(counts, workers, argset, credset) ==
    /\ \E n \in counts, credentials \in credset :
          /\ devices = [i \in 1..n |-> [Device(IpAddress(i))
                                           EXCEPT !.credentials = credentials]]
          /\ outcome = [i \in 1..n |-> NotCalled]
    /\ args \in argset
    /\ num_of_workers \in workers
    /\ input_queue = <<>>
    /\ unfinished_tasks = 0
    /\ output_queue = <<>>
    /\ started = 0
    /\ next_item = 1
    /\ main_pc = "put"
    /\ result = <<>>
    /\ worker_pc = [w \in 1..num_of_workers |-> "idle"]
    /\ worker_item = [w \in 1..num_of_workers |-> 0]
    /\ worker_r = [w \in 1..num_of_workers |-> [kind |-> None, id |-> 0]]

InitNoConnect ==
    /\ conn_args = IdleConnArgs
    /\ conn_state = IdleConnState

\* A helper as __init__ leaves it (lines 34-38), run called for the first time.
InitFreshHelper == run_calls = 1

\* ------------------------------------------------------- ThreadingHelper.run
\* Lines 62-63: one input_queue.put(item).
RunPut ==
    /\ main_pc = "put"
    /\ next_item <= Len(devices)
    /\ input_queue' = Append(input_queue, next_item)
    /\ unfinished_tasks' = unfinished_tasks + 1
    /\ next_item' = next_item + 1
    /\ UNCHANGED <<args, devices, output_queue, num_of_workers, started, main_pc,
                   result, worker_pc, worker_item, worker_r, outcome>>

RunPutDone ==
    /\ main_pc = "put"
    /\ next_item > Len(devices)
    /\ main_pc' = "start"
    /\ UNCHANGED <<args, devices, input_queue, unfinished_tasks, output_queue,
                   num_of_workers, started, next_item, result, worker_pc,
                   worker_item, worker_r, outcome>>

\* Lines 64-66: one thread is created and started.
RunStartThread ==
    /\ main_pc = "start"
    /\ started < num_of_workers
    /\ started' = started + 1
    /\ worker_pc' = [worker_pc EXCEPT ![started + 1] = "check"]
    /\ UNCHANGED <<args, devices, input_queue, unfinished_tasks, output_queue,
                   num_of_workers, next_item, main_pc, result, worker_item,
                   worker_r, outcome>>

RunStartDone ==
    /\ main_pc = "start"
    /\ started = num_of_workers
    /\ main_pc' = "join"
    /\ UNCHANGED <<args, devices, input_queue, unfinished_tasks, output_queue,
                   num_of_workers, started, next_item, result, worker_pc,
                   worker_item, worker_r, outcome>>

\* A join that only waited for the input queue to be drained.
JoinReturnsWhenQueueEmpty == input_queue = <<>>

\* Line 67: input_queue.join() blocks while unfinished_tasks is not 0.
JoinMayReturn == unfinished_tasks = 0

\* Lines 67-68: input_queue.join() returns once every task is done; then the
\* output queue's items are returned.
RunJoin ==
    /\ main_pc = "join"
    /\ JoinMayReturn
    /\ result' = output_queue
    /\ main_pc' = "returned"
    /\ UNCHANGED <<args, devices, input_queue, unfinished_tasks, output_queue,
                   num_of_workers, started, next_item, worker_pc, worker_item,
                   worker_r, outcome>>

\* --------------------------------------------------- ThreadingHelper.__worker
\* Line 45: `while not self.input_queue.empty()`.
WorkerCheck(w) ==
    /\ worker_pc[w] = "check"
    /\ worker_pc' = [worker_pc EXCEPT ![w] = IF input_queue = <<>> THEN "exit" ELSE "get"]
    /\ UNCHANGED <<args, devices, input_queue, unfinished_tasks, output_queue,
                   num_of_workers, started, next_item, main_pc, result,
                   worker_item, worker_r, outcome>>

\* Line 46 with a get() that hands out the first item and leaves it queued.
WorkerGetLeavesItem(w) ==
    /\ worker_pc[w] = "get"
    /\ input_queue # <<>>
    /\ worker_item' = [worker_item EXCEPT ![w] = Head(input_queue)]
    /\ worker_pc' = [worker_pc EXCEPT ![w] = "call"]
    /\ UNCHANGED <<args, devices, input_queue, unfinished_tasks, output_queue,
                   num_of_workers, started, next_item, main_pc, result, worker_r,
                   outcome>>

\* Line 46: input_queue.get() blocks while the queue is empty.
WorkerGet(w) ==
    /\ worker_pc[w] = "get"
    /\ input_queue # <<>>
    /\ worker_item' = [worker_item EXCEPT ![w] = Head(input_queue)]
    /\ input_queue' = Tail(input_queue)
    /\ worker_pc' = [worker_pc EXCEPT ![w] = "call"]
    /\ UNCHANGED <<args, devices, unfinished_tasks, output_queue, num_of_workers,
                   started, next_item, main_pc, result, worker_r, outcome>>

\* What a thread does when worker_func leaves by an exception: nothing
\* catches it in __worker, the thread ends, lines 49 and 51 are not run.
AfterWorkerFunc(exc) == IF exc = NoExc THEN "put" ELSE "crashed"

\* Line 47: r = self.worker_func(item, **self.worker_func_args), the whole
\* upgrade_asa call on the Device object.
WorkerCall(w) ==
    /\ worker_pc[w] = "call"
    /\ \E env \in Envs(devices[worker_item[w]].credentials, args) :
          LET i == worker_item[w]
              r == upgrade_asa(devices[i], args, env)
          IN  /\ devices' = [devices EXCEPT ![i] = r.device]
              /\ outcome' = [outcome EXCEPT ![i] =
                                [trace |-> r.trace, session |-> r.session,
                                 scp_before |-> r.scp_before, scp_now |-> r.scp_now,
                                 ret |-> r.ret, exc |-> r.exc]]
              /\ worker_r' = [worker_r EXCEPT ![w] =
                                IF r.ret = "device" THEN [kind |-> "Device", id |-> i]
                                ELSE [kind |-> None, id |-> 0]]
              /\ worker_pc' = [worker_pc EXCEPT ![w] = AfterWorkerFunc(r.exc)]
    /\ UNCHANGED <<args, input_queue, unfinished_tasks, output_queue,
                   num_of_workers, started, next_item, main_pc, result, worker_item>>

\* Line 49: self.output_queue.put(r).
WorkerPut(w) ==
    /\ worker_pc[w] = "put"
    /\ output_queue' = Append(output_queue, worker_r[w])
    /\ worker_pc' = [worker_pc EXCEPT ![w] = "task_done"]
    /\ UNCHANGED <<args, devices, input_queue, unfinished_tasks, num_of_workers,
                   started, next_item, main_pc, result, worker_item, worker_r, outcome>>

\* Line 51: self.input_queue.task_done().
WorkerTaskDone(w) ==
    /\ worker_pc[w] = "task_done"
    /\ unfinished_tasks' = unfinished_tasks - 1
    /\ worker_pc' = [worker_pc EXCEPT ![w] = "check"]
    /\ UNCHANGED <<args, devices, input_queue, output_queue, num_of_workers,
                   started, next_item, main_pc, result, worker_item, worker_r, outcome>>

Worker(w) ==
    \/ WorkerCheck(w)
    \/ WorkerGet(w)
    \/ WorkerCall(w)
    \/ WorkerPut(w)
    \/ WorkerTaskDone(w)

Run == RunPut \/ RunPutDone \/ RunStartThread \/ RunStartDone \/ RunJoin

PoolNext == Run \/ \E w \in 1..num_of_workers : Worker(w)

\* ------------------------------------------------------ specification: pool
\* ThreadingHelper.run driving upgrade_asa over up to MaxDevices devices with
\* up to MaxWorkers threads.
PoolArgs == ArgsOver({"asa"}, {<<"asa.bin">>}, {<<"disk0:">>})

PoolCredentials ==
    {ListCreds(<<>>),
     ListCreds(<<[username |-> "admin", password |-> "pw1", secret |-> Absent]>>)}

Init ==
    /\ InitPool(0..MaxDevices, 1..MaxWorkers, PoolArgs, PoolCredentials)
    /\ InitNoConnect
    /\ InitFreshHelper

Next == PoolNext /\ UNCHANGED <<conn_vars, run_calls>>

Spec == Init /\ [][Next]_vars

\* ------------------------------------------- specification: one upgrade_asa
\* One device and one thread, over every credentials argument.
UpgradeArgs == ArgsOver({"asa", "ASDM"}, {<<"asa.bin">>}, {<<"disk0:">>})

InitUpgrade ==
    /\ InitPool({1}, {1}, UpgradeArgs, CredentialArgs)
    /\ InitNoConnect
    /\ InitFreshHelper

SpecUpgrade == InitUpgrade /\ [][Next]_vars

\* One device and one thread, over every image type, image location and
\* destination drive.
ImageArgs ==
    {a \in ArgsOver(ImageTypes, ImageLocations, DestDrives) : ~a.backup_config}

InitImage ==
    /\ InitPool({1}, {1}, ImageArgs, PoolCredentials \ {ListCreds(<<>>)})
    /\ InitNoConnect
    /\ InitFreshHelper

SpecImage == InitImage /\ [][Next]_vars

\* ------------------------------------- specification: one connect_to_device
TypeNames == {<<"cisco_asa">>, <<"cisco_ios">>}

DeviceTypeArgs ==
    {ListType(ts) : ts \in SeqsUpTo(TypeNames, MaxTypes)}
        \cup {StrType(<<"a", "u">>)}

\* The call is made: lines 172-192.
ConnectCall ==
    /\ conn_state.status = "ready"
    /\ conn_state' = ConnectStart("10.0.0.1", conn_args.credentials,
                                  conn_args.enable_mode, conn_args.device_type)
    /\ UNCHANGED conn_args

\* One connection attempt: lines 210-234.
ConnectAttempt ==
    /\ conn_state.status = "running"
    /\ \E o \in AttemptOutcomes : conn_state' = ConnectStep(conn_state, o)
    /\ UNCHANGED conn_args

InitConnect ==
    /\ InitPool({0}, {1}, PoolArgs, {NoneCreds})
    /\ conn_args \in [credentials : CredentialArgs, enable_mode : BOOLEAN,
                      device_type : DeviceTypeArgs]
    /\ conn_state = [status |-> "ready"]
    /\ InitFreshHelper

NextConnect == (ConnectCall \/ ConnectAttempt) /\ UNCHANGED <<pool_vars, run_calls>>

SpecConnect == InitConnect /\ [][NextConnect]_vars

\* ------------------------------------------------ specification: job pool
\* The docstring's example: run over a list of numbers with the worker
\* function job, which always returns.  Here `devices` is the list handed to
\* run, `args` is worker_func_args and `outcome` records each item's calls.
job(a, kwargs) == a * kwargs.times_by

JobItems == {1, 2}

\* Line 47 with worker_func = job.
WorkerCallJob(w) ==
    /\ worker_pc[w] = "call"
    /\ LET i == worker_item[w]
           r == job(devices[i], args)
       IN  /\ outcome' = [outcome EXCEPT ![i] =
                            [@ EXCEPT !.trace = Append(@, Ev("job", <<ToString(devices[i])>>)),
                                      !.ret = "int"]]
           /\ worker_r' = [worker_r EXCEPT ![w] = [kind |-> "int", id |-> r]]
           /\ worker_pc' = [worker_pc EXCEPT ![w] = AfterWorkerFunc(NoExc)]
    /\ UNCHANGED <<args, devices, input_queue, unfinished_tasks, output_queue,
                   num_of_workers, started, next_item, main_pc, result, worker_item>>

WorkerJob(w) ==
    \/ WorkerCheck(w)
    \/ WorkerGet(w)
    \/ WorkerCallJob(w)
    \/ WorkerPut(w)
    \/ WorkerTaskDone(w)

\* A fresh helper (lines 34-38) and the list run is called with.
InitJob ==
    /\ devices \in SeqsUpTo(JobItems, MaxDevices)
    /\ outcome = [i \in 1..Len(devices) |-> NotCalled]
    /\ args = [times_by |-> 2]
    /\ num_of_workers \in 0..MaxWorkers
    /\ input_queue = <<>>
    /\ unfinished_tasks = 0
    /\ output_queue = <<>>
    /\ started = 0
    /\ next_item = 1
    /\ main_pc = "put"
    /\ result = <<>>
    /\ worker_pc = [w \in 1..num_of_workers |-> "idle"]
    /\ worker_item = [w \in 1..num_of_workers |-> 0]
    /\ worker_r = [w \in 1..num_of_workers |-> [kind |-> None, id |-> 0]]
    /\ InitNoConnect
    /\ InitFreshHelper

NextJob == (Run \/ \E w \in 1..num_of_workers : WorkerJob(w)) /\ UNCHANGED <<conn_vars, run_calls>>

SpecJob == InitJob /\ [][NextJob]_vars

\* The job pool with its scheduling: the main thread and every thread run
\* started (threading.Thread, line 65-66) keep being scheduled while they
\* have a step to take; a thread inside a blocking get() has none.
ThreadStep(w) == w \in 1..num_of_workers /\ WorkerJob(w) /\ UNCHANGED <<conn_vars, run_calls>>

MainStep == Run /\ UNCHANGED <<conn_vars, run_calls>>

SpecJobFair ==
    /\ SpecJob
    /\ WF_vars(MainStep)
    /\ \A w \in 1..MaxWorkers : WF_vars(ThreadStep(w))

\* ------------------------------------------- specification: helper reused
\* run is called again on the same helper, with a list of its own, after the
\* threads of the call before have ended.  The queues are the helper's
\* (created in __init__, lines 34-35) and are left as they are; the threads
\* and their locals are new (lines 64-66).
RunAgain ==
    /\ main_pc = "returned"
    /\ run_calls < MaxRuns
    /\ \A w \in 1..num_of_workers : worker_pc[w] = "exit"
    /\ run_calls' = run_calls + 1
    /\ devices' \in SeqsUpTo(JobItems, MaxDevices)
    /\ outcome' = [i \in 1..Len(devices') |-> NotCalled]
    /\ next_item' = 1
    /\ started' = 0
    /\ main_pc' = "put"
    /\ worker_pc' = [w \in 1..num_of_workers |-> "idle"]
    /\ worker_item' = [w \in 1..num_of_workers |-> 0]
    /\ worker_r' = [w \in 1..num_of_workers |-> [kind |-> None, id |-> 0]]
    /\ UNCHANGED <<args, input_queue, unfinished_tasks, output_queue,
                   num_of_workers, result, conn_vars>>

NextRerun == NextJob \/ RunAgain

SpecRerun == InitJob /\ [][NextRerun]_vars

\* ================================================================== claims
Finished(i) == outcome[i].ret # "<not called>"

Trace(i) == outcome[i].trace

Has(trace, ev) == \E k \in 1..Len(trace) : trace[k] = ev

HasOp(trace, op) == \E k \in 1..Len(trace) : trace[k].op = op

IsBootPointer(ev) ==
    /\ ev.op = "send_config_set"
    /\ ev.arg # <<>>
    /\ ev.arg[1] \in {"boot system ", "asdm image "}

IsReboot(ev) ==
    \/ ev.op = "send_confg_set"
    \/ ev.op = "send_config_set" /\ ev.arg = <<"reboot">>

IsAfterUpload(ev) == IsBootPointer(ev) \/ ev.op = "save_config" \/ IsReboot(ev)

DeviceEntry(i) == [kind |-> "Device", id |-> i]

Occurrences(list, x) == Cardinality({k \in 1..Len(list) : list[k] = x})

WorkersOver == \A w \in 1..num_of_workers : worker_pc[w] \in {"exit", "crashed"}

\* C1 (as claimed): when run has returned, the list it returned holds exactly
\* one finalized Device record per input device and nothing else.
C1_RunReturnsEveryDeviceOnce ==
    main_pc = "returned" =>
        /\ Len(result) = Len(devices)
        /\ \A i \in 1..Len(devices) : Occurrences(result, DeviceEntry(i)) = 1

\* C2 (as claimed): no failure raised inside upgrade_asa escapes into the
\* worker thread, and none leaves run waiting for a task that will never be
\* marked done.
C2_FailuresCaughtAtDeviceBoundary ==
    /\ \A w \in 1..num_of_workers : worker_pc[w] # "crashed"
    /\ \A i \in 1..Len(devices) : outcome[i].exc = NoExc
    /\ ~(main_pc = "join" /\ WorkersOver /\ unfinished_tasks > 0)

\* C3 (as claimed): for every device upgrade_asa has finished with, connected
\* is true iff connect_to_device returned a session.
C3_ConnectedIffSessionReturned ==
    \A i \in 1..Len(devices) :
        Finished(i) => (devices[i].connected <=> outcome[i].session)

\* C4 (as claimed): once upgrade_asa has finished with a device, every
\* "ssh scopy enable" it issued is followed by a "no ssh scopy enable", and a
\* feature found disabled is disabled again.
C4_ScpDisabledAgain ==
    \A i \in 1..Len(devices) :
        Finished(i) =>
            /\ \A k \in 1..Len(Trace(i)) :
                  Trace(i)[k] = Ev("send_config_set", <<"ssh scopy enable">>) =>
                      \E j \in (k + 1)..Len(Trace(i)) :
                          Trace(i)[j] = Ev("send_config_set", <<"no ssh scopy enable">>)
            /\ (~outcome[i].scp_before) => ~outcome[i].scp_now

\* C5: when verify_space_available() returned false, transfer_file() and
\* verify_file() were not called for the device and its error is the
\* insufficient-space message.
C5_NoTransferWithoutSpace ==
    \A i \in 1..Len(devices) :
        Has(Trace(i), Ev("verify_space_available", <<"False">>)) =>
            /\ ~HasOp(Trace(i), "transfer_file")
            /\ ~HasOp(Trace(i), "verify_file")
            /\ devices[i].error = "Not enough space to upload file"

C5_Witness ==
    \E i \in 1..Len(devices) :
        /\ Finished(i)
        /\ Has(Trace(i), Ev("verify_space_available", <<"False">>))

\* C6: a boot-pointer command, save_config and the reboot command come only
\* after transfer_file() completed and verify_file() returned true, in that
\* order; when space is insufficient or verification fails none of them is
\* issued.
C6_BootOnlyAfterVerifiedUpload ==
    \A i \in 1..Len(devices) :
        /\ \A k \in 1..Len(Trace(i)) :
              IsAfterUpload(Trace(i)[k]) =>
                  \E t, v \in 1..(k - 1) :
                      /\ t < v
                      /\ Trace(i)[t] = Ev("transfer_file", <<"ok">>)
                      /\ Trace(i)[v] = Ev("verify_file", <<"True">>)
        /\ (\/ Has(Trace(i), Ev("verify_space_available", <<"False">>))
            \/ Has(Trace(i), Ev("verify_file", <<"False">>)))
               => \A k \in 1..Len(Trace(i)) : ~IsAfterUpload(Trace(i)[k])

C6_Witness ==
    \E i \in 1..Len(devices) :
        /\ Finished(i)
        /\ \E k \in 1..Len(Trace(i)) : IsBootPointer(Trace(i)[k])
        /\ HasOp(Trace(i), "save_config")

BootPrefix(image_type) ==
    IF image_type \in {"asa", "ASA"} THEN "boot system " ELSE "asdm image "

BootPointers(i) == {k \in 1..Len(Trace(i)) : IsBootPointer(Trace(i)[k])}

\* C7 (as claimed): for a device whose upload succeeded, the boot-pointer
\* command is the prefix followed by dest_drive and the base name of
\* image_location, with nothing in between.
C7_BootPathIsDrivePlusName ==
    \A i \in 1..Len(devices) :
        (Finished(i) /\ devices[i].file_uploaded) =>
            \A k \in BootPointers(i) :
                Trace(i)[k].arg = <<BootPrefix(args.image_type)>>
                                     \o args.dest_drive \o PathName(args.image_location)

\* C7 (amended): for a device whose upload succeeded, exactly one boot-pointer
\* command is issued, and it is the prefix ('boot system ' for asa,
\* 'asdm image ' for asdm, in either case of the letters) followed by
\* dest_drive, a "/" and the base name of image_location.
C7_BootPathIsDriveSlashName ==
    \A i \in 1..Len(devices) :
        (Finished(i) /\ devices[i].file_uploaded) =>
            /\ Cardinality(BootPointers(i)) = 1
            /\ \A k \in BootPointers(i) :
                  Trace(i)[k].arg = <<BootPrefix(args.image_type)>>
                                       \o args.dest_drive \o <<"/">>
                                       \o PathName(args.image_location)

C7_Witness ==
    \E i \in 1..Len(devices) :
        /\ Finished(i)
        /\ devices[i].file_uploaded
        /\ BootPointers(i) # {}
        /\ Len(args.image_location) > 1
        /\ PathName(args.image_location) # args.image_location
        /\ PathName(args.image_location) # <<>>

ConnCalled == conn_state.status \in {"running", "returned", "raised"}

IsSuccess(out, enable_mode) == out = "ok" \/ (out = "enable" /\ ~enable_mode)

Attempts(log) == SelectSeq(log, LAMBDA ev : ev.op = "ConnectHandler")

\* C8: every attempt before the last one was rejected as an authentication
\* failure (so nothing is attempted after a success), and a call that returns
\* a session returns one opened with the username, password and secret of
\* the credential set K it stopped at, after trying every device type with
\* each of the K-1 sets before it.
C8_SessionUsesFirstAcceptedCredential ==
    ConnCalled =>
        /\ \A k \in 1..(Len(conn_state.outs) - 1) : conn_state.outs[k] = "auth"
        /\ Len(Attempts(conn_state.log)) = Len(conn_state.outs)
        /\ conn_state.status = "returned" =>
              LET K == conn_state.c
                  n == Len(conn_state.outs)
                  cred == conn_state.creds[K]
                  type == conn_state.types[conn_state.d]
              IN  /\ n = (K - 1) * Len(conn_state.types) + conn_state.d
                  /\ IsSuccess(conn_state.outs[n], conn_state.enable_mode)
                  /\ conn_state.conn = [username |-> cred.username,
                                        password |-> cred.password,
                                        secret |-> cred.secret,
                                        device_type |-> type]
                  /\ Attempts(conn_state.log)[n] =
                        Ev("ConnectHandler",
                           <<cred.username, cred.password, cred.secret>> \o type)

C8_Witness ==
    /\ conn_state.status = "returned"
    /\ conn_state.c = Len(conn_state.creds)
    /\ conn_state.c > 1
    /\ conn_state.creds[1].secret # Absent
    /\ conn_state.creds[conn_state.c].secret = Absent
    /\ Len(conn_state.types) > 1

\* C9: an attempt that ends in a connection timeout is the last attempt of the
\* call, and the call has failed with ConnectionException.
C9_TimeoutAbortsSearch ==
    ConnCalled =>
        \A k \in 1..Len(conn_state.outs) :
            conn_state.outs[k] = "timeout" =>
                /\ k = Len(conn_state.outs)
                /\ conn_state.status = "raised"
                /\ conn_state.exc = "ConnectionException"

C9_Witness ==
    /\ conn_state.status = "raised"
    /\ conn_state.outs = <<"timeout">>
    /\ Len(conn_state.creds) > 1
    /\ Len(conn_state.types) > 1

\* C10: with an empty or missing credential list upgrade_asa makes no
\* connection attempt and issues no device command, and returns the device
\* with connected = false.
C10_NoCredentialsNoAttempt ==
    \A i \in 1..Len(devices) :
        (Finished(i) /\ ~Truthy(devices[i].credentials)) =>
            /\ Trace(i) = <<>>
            /\ outcome[i].exc = NoExc
            /\ outcome[i].ret = "device"
            /\ ~outcome[i].session
            /\ ~devices[i].connected

C10_Witness ==
    \E i \in 1..Len(devices) :
        /\ Finished(i)
        /\ devices[i].credentials = ListCreds(<<>>)
        /\ worker_pc[1] = "exit"

UploadSucceeded(i) == Finished(i) /\ devices[i].file_uploaded

\* C11 (as claimed): when reboot was requested and the upload succeeded, no
\* exception leaves upgrade_asa, the device is probed after the reboot and is
\* returned with connected = true, and a probe that returned false leaves
\* successfully_rebooted = false.
C11_RebootPathReturnsDevice ==
    \A i \in 1..Len(devices) :
        (UploadSucceeded(i) /\ args.reboot) =>
            /\ outcome[i].exc = NoExc
            /\ outcome[i].ret = "device"
            /\ devices[i].connected
            /\ HasOp(Trace(i), "ping")
            /\ Has(Trace(i), Ev("ping", <<devices[i].ip_address, "False">>))
                  => ~devices[i].successfully_rebooted

\* C12 (as claimed): every upgrade_asa call that returns, returns the Device
\* it was given.
C12_ReturnsTheDevice ==
    \A i \in 1..Len(devices) :
        (Finished(i) /\ outcome[i].exc = NoExc) => outcome[i].ret = "device"

JobResult(v) == [kind |-> "int", id |-> v]

Calls(i) == Len(outcome[i].trace)

\* C13: when run returns on a fresh helper whose worker function always
\* returns, the input queue is empty, every item was passed to the worker
\* function exactly once, and the returned list holds exactly the items'
\* results, one entry per item, in any order.
C13_RunReturnsEveryResult ==
    main_pc = "returned" =>
        /\ next_item = Len(devices) + 1
        /\ input_queue = <<>>
        /\ \A w \in 1..num_of_workers : worker_pc[w] \in {"check", "get", "exit"}
        /\ \A i \in 1..Len(devices) : Calls(i) = 1
        /\ Len(result) = Len(devices)
        /\ \A v \in {job(a, args) : a \in JobItems} :
              Occurrences(result, JobResult(v)) =
                  Cardinality({i \in 1..Len(devices) : job(devices[i], args) = v})

\* run has returned the results of two different items handled by two
\* threads, the second item's result first.
C13_Witness ==
    /\ main_pc = "returned"
    /\ num_of_workers >= 2
    /\ Len(devices) = 2
    /\ devices[1] # devices[2]
    /\ result = <<JobResult(job(devices[2], args)), JobResult(job(devices[1], args))>>

ConnectionFailed(i) == Finished(i) /\ ~outcome[i].session

BackupDestinationInvalid(i) == Has(Trace(i), Ev("is_dir", <<"False">>))

InsufficientSpace(i) == Has(Trace(i), Ev("verify_space_available", <<"False">>))

IntegrityCheckFailed(i) == Has(Trace(i), Ev("verify_file", <<"False">>))

\* C14 (as claimed): a device upgrade_asa has finished with has a non-empty
\* error exactly when its sequence ended in a failure (connection failed,
\* backup destination invalid, insufficient space, integrity check failed),
\* and the error is the message of that failure.
C14_FailureHasItsError ==
    \A i \in 1..Len(devices) :
        Finished(i) =>
            /\ (devices[i].error # "") <=>
                  \/ ConnectionFailed(i)
                  \/ BackupDestinationInvalid(i)
                  \/ InsufficientSpace(i)
                  \/ IntegrityCheckFailed(i)
            /\ InsufficientSpace(i) =>
                  devices[i].error = "Not enough space to upload file"
            /\ IntegrityCheckFailed(i) =>
                  devices[i].error = "File transfer verifier failed"

ScpEnable == Ev("send_config_set", <<"ssh scopy enable">>)

ScpDisable == Ev("send_config_set", <<"no ssh scopy enable">>)

ScpQueried(i) == Has(Trace(i), Ev("send_command", <<"sh run | i ssh scopy enable">>))

\* C15 (as claimed): when the SCP feature was already enabled at the time
\* upgrade_asa queried it, neither "ssh scopy enable" nor
\* "no ssh scopy enable" was issued and the feature is still enabled; the
\* disable command is issued only when the feature was found disabled.
C15_EnabledScpLeftAlone ==
    \A i \in 1..Len(devices) :
        (Finished(i) /\ ScpQueried(i)) =>
            /\ outcome[i].scp_before =>
                  /\ ~Has(Trace(i), ScpEnable)
                  /\ ~Has(Trace(i), ScpDisable)
                  /\ outcome[i].scp_now
            /\ Has(Trace(i), ScpDisable) => ~outcome[i].scp_before

Combinations == Len(conn_state.creds) * Len(conn_state.types)

\* C16 (as claimed): with enable_mode set, an attempt whose enable() failed
\* counts as a rejected attempt: the search goes on while combinations are
\* left, and a call that fails does so with ConnectionException.
C16_EnableFailureContinuesSearch ==
    (ConnCalled /\ conn_state.enable_mode) =>
        \A k \in 1..Len(conn_state.outs) :
            conn_state.outs[k] = "enable" =>
                /\ k < Combinations =>
                      (conn_state.status = "running" \/ Len(conn_state.outs) > k)
                /\ conn_state.status = "raised" =>
                      /\ conn_state.exc = "ConnectionException"
                      /\ Len(conn_state.outs) = Combinations

\* Attempt k of a search in which nothing is accepted: credential-major, all
\* device types with the first credential set, then the next set.
ExpectedAttempt(creds, types, k) ==
    LET cred == creds[((k - 1) \div Len(types)) + 1]
        type == types[((k - 1) % Len(types)) + 1]
    IN  Ev("ConnectHandler", <<cred.username, cred.password, cred.secret>> \o type)

AllRejected == \A k \in 1..Len(conn_state.outs) : conn_state.outs[k] = "auth"

\* C17: while every attempt is rejected as an authentication failure, the
\* attempts made are the (credential set, device type) combinations in
\* credential-major order, each once, over the credential sets given and the
\* device types the loop iterates (the list given, when a list is given); the
\* call fails when the last combination is rejected and not before, with
\* ConnectionException "Unable to connect to device".
C17_AllRejectedTriesEveryCombination ==
    (ConnCalled /\ Truthy(conn_args.credentials) /\ AllRejected) =>
        /\ conn_state.creds = conn_args.credentials.items
        /\ conn_args.device_type.kind = "list" =>
              conn_state.types = conn_args.device_type.names
        /\ Len(Attempts(conn_state.log)) = Len(conn_state.outs)
        /\ Len(conn_state.outs) <= Combinations
        /\ \A k \in 1..Len(conn_state.outs) :
              Attempts(conn_state.log)[k] =
                  ExpectedAttempt(conn_state.creds, conn_state.types, k)
        /\ (conn_state.status = "raised") <=> (Len(conn_state.outs) = Combinations)
        /\ conn_state.status = "raised" =>
              /\ conn_state.exc = "ConnectionException"
              /\ conn_state.msg = "Unable to connect to device"
        /\ conn_state.status # "returned"

\* Two credential sets and two device types, all four combinations rejected.
C17_Witness ==
    /\ conn_state.status = "raised"
    /\ AllRejected
    /\ Len(conn_state.creds) = 2
    /\ conn_state.creds[1] # conn_state.creds[2]
    /\ conn_args.device_type.kind = "list"
    /\ Len(conn_state.types) = 2
    /\ conn_state.types[1] # conn_state.types[2]
    /\ Len(conn_state.outs) = 4

\* C18 (as claimed): with device_type given as one string and credentials as
\* a list, every attempt uses the whole string as the device type and at most
\* one attempt is made per credential set.
C18_StringTypeIsOneCandidate ==
    (ConnCalled /\ conn_args.device_type.kind = "str"
                /\ conn_args.credentials.kind = "list") =>
        /\ Len(conn_state.outs) <= Len(conn_state.creds)
        /\ \A k \in 1..Len(Attempts(conn_state.log)) :
              LET arg == Attempts(conn_state.log)[k].arg
              IN  SubSeq(arg, 4, Len(arg)) = conn_args.device_type.names[1]

BackupDestinationIsDir(i) == Has(Trace(i), Ev("is_dir", <<"True">>))

IsUploadStep(ev) ==
    \/ ev.op \in {"FileTransfer", "verify_space_available", "transfer_file",
                  "verify_file"}
    \/ ev = ScpEnable
    \/ ev = ScpDisable

\* C19 (as claimed): backup_config is called only when the backup was
\* requested; with a destination that is not a directory nothing of the
\* upload stage or after it is done and the device is returned; with a
\* destination that is a directory backup_config returns and the sequence
\* goes on to the upload stage.
C19_BackupHaltsOrProceeds ==
    \A i \in 1..Len(devices) :
        Finished(i) =>
            /\ HasOp(Trace(i), "backup_config") => args.backup_config
            /\ BackupDestinationInvalid(i) =>
                  /\ ~ScpQueried(i)
                  /\ \A k \in 1..Len(Trace(i)) :
                        ~IsUploadStep(Trace(i)[k]) /\ ~IsAfterUpload(Trace(i)[k])
                  /\ outcome[i].ret = "device"
            /\ BackupDestinationIsDir(i) =>
                  /\ outcome[i].exc # "TypeError"
                  /\ ScpQueried(i)

IsSave(ev) == ev.op = "save_config"

IsWait(ev) == ev.op = "sleep"

IsProbe(ev) == ev.op = "ping"

\* Every step of the first kind comes before every step of the second kind.
Precedes(trace, First(_), Second(_)) ==
    \A j, k \in 1..Len(trace) : (First(trace[j]) /\ Second(trace[k])) => j < k

HoldingPcs == {"call", "put", "task_done"}

\* C21: in every step of every interleaving, two threads never hold the same
\* item, an item a thread holds is no longer queued, no item is passed to the
\* worker function twice, a thread comes to hold an item only by taking it
\* off the head of the input queue itself, and an item is passed to the worker
\* function only by the thread that holds it.
C21_ItemOwnedByOneWorker ==
    [][/\ \A w1, w2 \in 1..num_of_workers :
             (/\ w1 # w2
              /\ worker_pc'[w1] \in HoldingPcs
              /\ worker_pc'[w2] \in HoldingPcs) => worker_item'[w1] # worker_item'[w2]
       /\ \A w \in 1..num_of_workers :
             /\ worker_pc'[w] \in HoldingPcs =>
                   \A k \in 1..Len(input_queue') : input_queue'[k] # worker_item'[w]
             /\ (worker_pc[w] \notin HoldingPcs /\ worker_pc'[w] \in HoldingPcs) =>
                   /\ input_queue # <<>>
                   /\ worker_item'[w] = Head(input_queue)
                   /\ input_queue' = Tail(input_queue)
             /\ worker_pc[w] \in HoldingPcs => worker_item'[w] = worker_item[w]
       /\ \A i \in 1..Len(devices) :
             /\ Len(outcome'[i].trace) <= 1
             /\ Len(outcome'[i].trace) > Len(outcome[i].trace) =>
                   \E w \in 1..num_of_workers :
                       /\ worker_pc[w] = "call"
                       /\ worker_item[w] = i
                       /\ worker_pc'[w] # "call"
      ]_vars

\* Two threads are inside the worker function at the same time, each with an
\* item of its own.
C21_Witness ==
    /\ num_of_workers >= 2
    /\ worker_pc[1] = "call"
    /\ worker_pc[2] = "call"
    /\ worker_item[1] # worker_item[2]

\* C22 (as claimed): with at least one worker and a worker function that
\* always returns, every thread run starts eventually ends; none stays
\* blocked in input_queue.get().
C22_EveryWorkerTerminates ==
    (num_of_workers >= 1) =>
        <>(\A w \in 1..num_of_workers : worker_pc[w] = "exit")

\* C23 (as claimed): whenever run returns, on the first call or a later one
\* on the same helper, the list it returns holds exactly the results of the
\* items passed to that call.
C23_EachRunReturnsItsOwnResults ==
    main_pc = "returned" =>
        \A v \in {job(a, args) : a \in JobItems} :
            Occurrences(result, JobResult(v)) =
                Cardinality({i \in 1..Len(devices) : job(devices[i], args) = v})

====
